---- MODULE Spec2Model ----
(***************************************************************************)
(* Model of beta-bernoulli-update.ipynb: the Bernoulli draw Bern(p) and    *)
(* the sequential Beta-Bernoulli update learn_p(p, n, plot).               *)
(*                                                                         *)
(* Reals.  p and the uniform draws of rng.random() are floats.  The model  *)
(* keeps them on a grid of halves: the integer x stands for the real x/2.  *)
(* rng.random() returns a value of [0, 1), so a draw is 0 (0.0) or 1 (0.5);*)
(* p ranges over -0.5, 0.0, 0.5, 1.0, 1.5.  The counters alpha and beta    *)
(* are Python ints and are kept as integers.                               *)
(*                                                                         *)
(* Locals.  A local that the code may read before it was ever assigned     *)
(* (step, Y) is <<>> when unbound and <<v>> when bound.                    *)
(***************************************************************************)
EXTENDS Integers, Sequences, FiniteSets

VARIABLES
    p,        \* argument p of the running call (in halves)
    n,        \* argument n of the running call
    plot,     \* argument plot of the running call
    alpha,    \* local alpha
    beta,     \* local beta
    step,     \* loop variable: <<>> unbound, <<i>> bound to i
    Y,        \* local Y: <<>> unbound, <<a, b>> the pdf of Beta(a, b) on X
    draws,    \* the values rng.random() returned to this call, in order
    frames,   \* the figures this call displayed, in order
    printed,  \* <<>>, or <<e>> with the estimates the call printed
    ret,      \* <<>>, or the pair <<alpha, beta>> the call returned
    err,      \* "" or the exception that ended the call
    pc,       \* position of the call: loop, render, flip, final, print,
              \* return, done (returned), raised (ended by an exception)
    prev,     \* <<>>, or <<r>> with the record of the call before this one
    rng       \* the module-level generator rng: the number of values it has
              \* produced since  rng = np.random.default_rng()

vars == <<p, n, plot, alpha, beta, step, Y, draws, frames, printed, ret, err,
          pc, prev, rng>>

-----------------------------------------------------------------------------
(* Bounds and input domains *)

MaxN == 3
MaxSessionN == 2

\* def learn_p(p, n=150, plot=True): the n of a call that omits it
DefaultN == 150

\* period of the draw streams followed when n is left at its default
Period == 2

\* the draws the generator produces at most in a sequence of calls
MaxDraws == 4

\* x as a number of halves
HalvesOf(x) == 2 * x

\* the values rng.random() can return: 0.0 and 0.5
Draws == {0, 1}

\* the values of p: -0.5, 0.0, 0.5, 1.0, 1.5
PValues == -1 .. 3

\* the values of n of a single call: -1 .. MaxN, and the scenario n = 10
NValues == (-1 .. MaxN) \cup {10}

\* the values of n when several calls follow each other
SessionNValues == -1 .. MaxSessionN

-----------------------------------------------------------------------------
(* Pure parts of the code *)

\* Bern(p) with u the value rng.random() returned:  1 if u < p else 0
BernSwapped(pp, u) == IF u < pp THEN 0 ELSE 1
BernInclusive(pp, u) == IF u <= pp THEN 1 ELSE 0
BernFolded(pp, u) == IF u < (IF pp < 0 THEN -pp ELSE pp) THEN 1 ELSE 0
Bern(pp, u) == IF u < pp THEN 1 ELSE 0

\* rng.random(): the generator moves on by one value
AdvanceNone(g) == g
Advance(g) == g + 1

\* the step label of the title inside the loop: {step+1}
LoopLabelOld(i) == i
LoopLabel(i) == i + 1

\* the curve of the figure after the loop: ax.plot(X, Y) with Y as left by
\* the loop
FinalCurveFresh == <<alpha, beta>>
FinalCurve == Y

\* alpha = beta = 1
PriorZero == <<0, 0>>
PriorCarried == IF ret # <<>> THEN ret ELSE <<1, 1>>
Prior == <<1, 1>>

\* range(n): the indices the loop runs over, in increasing order
RangeShort(nn) == 0 .. (nn - 2)
RangeAbs(nn) == 0 .. ((IF nn < 0 THEN -nn ELSE nn) - 1)
Range(nn) == 0 .. (nn - 1)

\* beta += (1-flip)
BetaAlways(b, flip) == b + 1
BetaDown(b, flip) == b - (1 - flip)
UpdateBeta(b, flip) == b + (1 - flip)

\* alpha += flip
AlphaSame(a, flip) == a + (1 - flip)
AlphaFrozen(a, flip) == a
AlphaAssigned(a, flip) == flip
AlphaStreak(a, flip) == a * flip + 1
UpdateAlpha(a, flip) == a + flip

\* the index the for statement binds next
NextIndex == IF step = <<>> THEN 0 ELSE step[1] + 1

\* the flips of a sequence of draws under pp
RECURSIVE Flips(_, _)
Flips(pp, ds) ==
    IF ds = <<>> THEN <<>>
    ELSE <<Bern(pp, Head(ds))>> \o Flips(pp, Tail(ds))

\* number of entries of the 0/1 sequence fs that equal v
RECURSIVE Count(_, _)
Count(fs, v) ==
    IF fs = <<>> THEN 0
    ELSE (IF Head(fs) = v THEN 1 ELSE 0) + Count(Tail(fs), v)

N1 == Count(Flips(p, draws), 1)
N0 == Count(Flips(p, draws), 0)

\* the three estimates of the print statement, as numerator/denominator:
\* (alpha-1)/(alpha+beta-2), alpha/(alpha+beta),
\* (alpha-1/3)/(alpha+beta-2/3) = (3 alpha - 1)/(3 alpha + 3 beta - 2)
EstimatesMapAsMean(a, b) ==
    [map    |-> <<a, a + b>>,
     mean   |-> <<a, a + b>>,
     median |-> <<3 * a - 1, 3 * a + 3 * b - 2>>]
EstimatesMedianOff(a, b) ==
    [map    |-> <<a - 1, a + b - 2>>,
     mean   |-> <<a, a + b>>,
     median |-> <<3 * a - 1, 3 * a + 3 * b - 1>>]
EstimatesNoPrior(a, b) ==
    [map    |-> <<a - 1, a + b - 2>>,
     mean   |-> <<a - 1, a + b - 2>>,
     median |-> <<3 * a - 1, 3 * a + 3 * b - 2>>]
Estimates(a, b) ==
    [map    |-> <<a - 1, a + b - 2>>,
     mean   |-> <<a, a + b>>,
     median |-> <<3 * a - 1, 3 * a + 3 * b - 2>>]

\* return alpha, beta
ReturnSwapped(a, b) == <<b, a>>
ReturnValue(a, b) == <<a, b>>

\* the record kept of a call that ended
CallRecord ==
    [p |-> p, n |-> n, plot |-> plot, draws |-> draws, ret |-> ret,
     err |-> err]

-----------------------------------------------------------------------------
(* The state at the entry of a call, after  alpha = beta = 1 *)

Init ==
    /\ p \in PValues
    /\ n \in NValues
    /\ plot \in BOOLEAN
    /\ ret = <<>>
    /\ err = ""
    /\ alpha = Prior[1]
    /\ beta = Prior[2]
    /\ step = <<>>
    /\ Y = <<>>
    /\ draws = <<>>
    /\ frames = <<>>
    /\ printed = <<>>
    /\ pc = "loop"
    /\ prev = <<>>
    /\ rng = 0

InitSession == Init /\ n \in SessionNValues

\* the entry of a call learn_p(p): n and plot at their defaults
InitDefault ==
    /\ p \in PValues
    /\ n = DefaultN
    /\ plot = TRUE
    /\ ret = <<>>
    /\ err = ""
    /\ alpha = Prior[1]
    /\ beta = Prior[2]
    /\ step = <<>>
    /\ Y = <<>>
    /\ draws = <<>>
    /\ frames = <<>>
    /\ printed = <<>>
    /\ pc = "loop"
    /\ prev = <<>>
    /\ rng = 0

\* a further call, after the earlier one returned or raised
Call ==
    /\ pc \in {"done", "raised"}
    /\ \E pp \in PValues, nn \in SessionNValues, pl \in BOOLEAN :
          /\ rng + (IF nn > 0 THEN nn ELSE 0) <= MaxDraws
          /\ p' = pp
          /\ n' = nn
          /\ plot' = pl
    /\ alpha' = Prior[1]
    /\ beta' = Prior[2]
    /\ step' = <<>>
    /\ Y' = <<>>
    /\ draws' = <<>>
    /\ frames' = <<>>
    /\ printed' = <<>>
    /\ ret' = <<>>
    /\ err' = ""
    /\ pc' = "loop"
    /\ prev' = <<CallRecord>>
    /\ rng' = rng

\* for step in range(n):
LoopHead ==
    /\ pc = "loop"
    /\ IF NextIndex \in Range(n)
          THEN /\ step' = <<NextIndex>>
               /\ pc' = IF plot = TRUE THEN "render" ELSE "flip"
          ELSE /\ step' = step
               /\ pc' = "final"
    /\ UNCHANGED <<p, n, plot, alpha, beta, Y, draws, frames, printed, ret,
                   err, prev, rng>>

\* if plot == True:  Y = pdf of Beta(alpha, beta); title; display(fig).
\* The title is f"step={step+1}, N1 = {alpha-1}, N0 = {beta-1}"; the earlier
\* revision of the notebook kept beside it labels the frame step={step}.
Render ==
    /\ pc = "render"
    /\ Y' = <<alpha, beta>>
    /\ frames' = Append(frames,
                        [step |-> LoopLabel(step[1]), N1 |-> alpha - 1,
                         N0 |-> beta - 1, Y |-> <<alpha, beta>>,
                         applied |-> Len(draws), final |-> FALSE])
    /\ pc' = "flip"
    /\ UNCHANGED <<p, n, plot, alpha, beta, step, draws, printed, ret, err,
                   prev, rng>>

\* flip = Bern(p); beta += (1-flip); alpha += flip
Flip ==
    /\ pc = "flip"
    /\ \E u \in Draws :
          /\ draws' = Append(draws, u)
          /\ rng' = Advance(rng)
          /\ beta' = UpdateBeta(beta, Bern(p, u))
          /\ alpha' = UpdateAlpha(alpha, Bern(p, u))
    /\ pc' = "loop"
    /\ UNCHANGED <<p, n, plot, step, Y, frames, printed, ret, err, prev>>

\* flip = Bern(p); beta += (1-flip); alpha += flip, with the draws of a
\* generator whose output repeats with period Period
FlipPeriodic ==
    /\ pc = "flip"
    /\ \E u \in Draws :
          /\ Len(draws) >= Period => u = draws[Len(draws) + 1 - Period]
          /\ draws' = Append(draws, u)
          /\ rng' = Advance(rng)
          /\ beta' = UpdateBeta(beta, Bern(p, u))
          /\ alpha' = UpdateAlpha(alpha, Bern(p, u))
    /\ pc' = "loop"
    /\ UNCHANGED <<p, n, plot, step, Y, frames, printed, ret, err, prev>>

\* the rendering after the loop: the title reads step, the plot reads Y
FinalRender ==
    /\ pc = "final"
    /\ IF step = <<>>
          THEN /\ err' = "UnboundLocalError: step"
               /\ pc' = "raised"
               /\ frames' = frames
          ELSE IF Y = <<>>
          THEN /\ err' = "UnboundLocalError: Y"
               /\ pc' = "raised"
               /\ frames' = frames
          ELSE /\ err' = err
               /\ pc' = "print"
               /\ frames' = Append(frames,
                                   [step |-> step[1], N1 |-> alpha - 1,
                                    N0 |-> beta - 1, Y |-> FinalCurve,
                                    applied |-> Len(draws), final |-> TRUE])
    /\ UNCHANGED <<p, n, plot, alpha, beta, step, Y, draws, printed, ret,
                   prev, rng>>

\* print(MAP, mean, median): int / int raises ZeroDivisionError on 0
PrintEstimates ==
    /\ pc = "print"
    /\ IF alpha + beta - 2 = 0
          THEN /\ err' = "ZeroDivisionError"
               /\ pc' = "raised"
               /\ printed' = printed
          ELSE /\ err' = err
               /\ pc' = "return"
               /\ printed' = <<Estimates(alpha, beta)>>
    /\ UNCHANGED <<p, n, plot, alpha, beta, step, Y, draws, frames, ret, prev,
                   rng>>

\* return alpha, beta
Return ==
    /\ pc = "return"
    /\ ret' = ReturnValue(alpha, beta)
    /\ pc' = "done"
    /\ UNCHANGED <<p, n, plot, alpha, beta, step, Y, draws, frames, printed,
                   err, prev, rng>>

Next ==
    \/ LoopHead
    \/ Render
    \/ Flip
    \/ FinalRender
    \/ PrintEstimates
    \/ Return

\* one call of learn_p
Spec == Init /\ [][Next]_vars

NextSession ==
    \/ Call
    \/ LoopHead
    \/ Render
    \/ Flip
    \/ FinalRender
    \/ PrintEstimates
    \/ Return

\* calls of learn_p one after the other in the same kernel
SpecSession == InitSession /\ [][NextSession]_vars

NextDefault ==
    \/ LoopHead
    \/ Render
    \/ FlipPeriodic
    \/ FinalRender
    \/ PrintEstimates
    \/ Return

\* one call learn_p(p) with n and plot omitted
SpecDefault == InitDefault /\ [][NextDefault]_vars

-----------------------------------------------------------------------------
(* Shorthands of the properties *)

Finished == pc \in {"done", "raised"}
Returned == pc = "done"

TypeOK ==
    /\ p \in PValues
    /\ n \in NValues \cup {DefaultN}
    /\ plot \in BOOLEAN
    /\ alpha \in Nat
    /\ beta \in Nat
    /\ pc \in {"loop", "render", "flip", "final", "print", "return", "done",
               "raised"}

SameInputsAsPrev ==
    /\ prev # <<>>
    /\ prev[1].p = p
    /\ prev[1].n = n
    /\ prev[1].draws = draws

-----------------------------------------------------------------------------
(* Claims *)

\* C1: for every n >= 0 and every p, a call learn_p(p, n) (plot left at its
\* default True) ends by returning a pair (alpha, beta) with
\* alpha + beta = n + 2.
C1_ReturnsSum ==
    (Finished /\ plot = TRUE /\ n >= 0)
        => (Returned /\ ret # <<>> /\ ret[1] + ret[2] = n + 2)

\* C2: at every point of a run, after k flips were applied of which N1 were 1
\* and N0 were 0, alpha = 1 + N1, beta = 1 + N0 and alpha + beta = 2 + k, with
\* k between 0 and n.
C2_PosteriorCounts ==
    /\ alpha = 1 + N1
    /\ beta = 1 + N0
    /\ alpha + beta = 2 + Len(draws)
    /\ Len(draws) <= (IF n < 0 THEN 0 ELSE n)

C2_Witness ==
    /\ pc = "loop"
    /\ N1 >= 1
    /\ N0 >= 1
    /\ Len(draws) < n

\* C3: in every state of a run of learn_p, and in the pair it returns,
\* alpha >= 1 and beta >= 1.
C3_CountersAtLeastOne ==
    /\ alpha >= 1
    /\ beta >= 1
    /\ ret # <<>> => (ret[1] >= 1 /\ ret[2] >= 1)

C3_Witness ==
    /\ Returned
    /\ ret[1] > 1
    /\ ret[2] = 1

\* C4: two runs of learn_p with the same p, the same n and the same sequence
\* of draws from rng.random() that both return, return the same
\* (alpha, beta).
C4_Determinism ==
    (Returned /\ SameInputsAsPrev /\ prev[1].ret # <<>>)
        => ret = prev[1].ret

C4_Witness ==
    /\ Returned
    /\ SameInputsAsPrev
    /\ prev[1].ret # <<>>
    /\ N1 >= 1
    /\ N0 >= 1

\* C5: a call learn_p(p, 0) completes and returns the prior (1, 1).
C5_ZeroFlipsReturnsPrior ==
    (Finished /\ n = 0 /\ plot = TRUE)
        => (Returned /\ ret = <<1, 1>>)

\* C6: for the same p, n and draws, the call with plot disabled returns the
\* same (alpha, beta) as the call with plot enabled.
C6_PlotIrrelevant ==
    (Finished /\ SameInputsAsPrev /\ plot # prev[1].plot)
        => ret = prev[1].ret

\* C7: with p = 1.0 every flip is 1, and for every n >= 1 the call
\* learn_p(1.0, n) returns (n + 1, 1); n = 10 gives (11, 1).
C7_AllHeads ==
    /\ p = HalvesOf(1) => N0 = 0
    /\ (Finished /\ p = HalvesOf(1) /\ n >= 1 /\ plot = TRUE)
          => (Returned /\ ret = <<n + 1, 1>>)

C7_Witness ==
    /\ Returned
    /\ p = HalvesOf(1)
    /\ n = 10
    /\ ret = <<11, 1>>
    /\ \E i \in 1 .. Len(draws) : draws[i] = 1

\* C8: with p = 0.0 every flip is 0, and for every n >= 1 the call
\* learn_p(0.0, n) returns (1, n + 1); n = 10 gives (1, 11).
C8_AllTails ==
    /\ p = HalvesOf(0) => N1 = 0
    /\ (Finished /\ p = HalvesOf(0) /\ n >= 1 /\ plot = TRUE)
          => (Returned /\ ret = <<1, n + 1>>)

C8_Witness ==
    /\ Returned
    /\ p = HalvesOf(0)
    /\ n = 10
    /\ ret = <<1, 11>>
    /\ \E i \in 1 .. Len(draws) : draws[i] = 0

\* C9: a p outside [0, 1] raises no error: with p < 0 every flip is 0 and
\* with p > 1 every flip is 1, and the run (n >= 1, plot at its default)
\* completes with (1, n + 1) resp. (n + 1, 1).
C9_OutOfRangeP ==
    /\ p < HalvesOf(0) => N1 = 0
    /\ p > HalvesOf(1) => N0 = 0
    /\ (Finished /\ n >= 1 /\ plot = TRUE /\ p < HalvesOf(0))
          => (Returned /\ err = "" /\ ret = <<1, n + 1>>)
    /\ (Finished /\ n >= 1 /\ plot = TRUE /\ p > HalvesOf(1))
          => (Returned /\ err = "" /\ ret = <<n + 1, 1>>)

C9_Witness ==
    /\ Returned
    /\ p < HalvesOf(0)
    /\ n = 10
    /\ ret = <<1, 11>>
    /\ \E i \in 1 .. Len(draws) : draws[i] = 0

\* C10 as stated: a call with negative n or with p outside [0, 1] ends in an
\* explicit invalid-parameter error before any flip is drawn, and returns no
\* (alpha, beta).
C10_InvalidRejected ==
    (Finished /\ (n < 0 \/ p < HalvesOf(0) \/ p > HalvesOf(1)))
        => /\ pc = "raised"
           /\ err = "InvalidParameter"
           /\ draws = <<>>
           /\ ret = <<>>

\* C10 as amended: no parameter is validated and no call ends in an
\* invalid-parameter error.  With negative n no flip is drawn and the call
\* ends in the UnboundLocalError of step, returning nothing; with p outside
\* [0, 1] and n >= 1 all n flips are drawn.
C10_NoValidation ==
    /\ err # "InvalidParameter"
    /\ (Finished /\ n < 0)
          => /\ pc = "raised"
             /\ err = "UnboundLocalError: step"
             /\ draws = <<>>
             /\ ret = <<>>
    /\ (Finished /\ n >= 1 /\ (p < HalvesOf(0) \/ p > HalvesOf(1)))
          => Len(draws) = n

C10_Witness ==
    /\ prev # <<>>
    /\ prev[1].n < 0
    /\ prev[1].err = "UnboundLocalError: step"
    /\ prev[1].draws = <<>>
    /\ Finished
    /\ p > HalvesOf(1)
    /\ n >= 1
    /\ Len(draws) = n

\* C11: in no run of learn_p (any p, any n >= 0, any plot flag) is
\* (alpha-1)/(alpha+beta-2) evaluated in a state where alpha + beta - 2 = 0,
\* i.e. at the state (1, 1): the print statement is never reached there and
\* no call ends in a ZeroDivisionError.
C11_MapDivisionNeverByZero ==
    /\ pc = "print" => alpha + beta - 2 # 0
    /\ err # "ZeroDivisionError"
    /\ printed # <<>> => printed[1].map[2] # 0
    /\ (alpha = 1 /\ beta = 1) => (printed = <<>> /\ pc # "print")

C11_Witness ==
    /\ prev # <<>>
    /\ prev[1].n = 0
    /\ prev[1].err = "UnboundLocalError: step"
    /\ printed # <<>>
    /\ printed[1].map[2] = n

\* C12: every run of learn_p with n >= 1 ends by reaching done and returning
\* (alpha, beta), after exactly n iterations with one draw and one counter
\* update each.
C12_RunsToDone ==
    (Finished /\ n >= 1)
        => /\ Returned
           /\ Len(draws) = n
           /\ alpha + beta = 2 + n
           /\ ret = <<alpha, beta>>

\* C13: a call learn_p(p) that omits n performs exactly 150 flips and returns
\* a pair with alpha + beta = 152.
C13_DefaultFlips ==
    /\ Len(draws) <= 150
    /\ Finished
          => /\ Returned
             /\ Len(draws) = 150
             /\ ret[1] + ret[2] = 152

C13_Witness ==
    /\ Returned
    /\ n = DefaultN
    /\ Len(draws) = 150
    /\ ret[1] + ret[2] = 152
    /\ ret[1] > 1
    /\ ret[2] > 1

\* C15: Bern(p) returns 1 exactly when the draw u of rng.random() satisfies
\* u < p (strictly) and 0 otherwise; its result is 0 or 1 and each call of it
\* consumes exactly one draw.
C15_BernStrict ==
    [][pc = "flip" =>
          LET u == draws'[Len(draws')]
              flip == alpha' - alpha
          IN  /\ Len(draws') = Len(draws) + 1
              /\ SubSeq(draws', 1, Len(draws)) = draws
              /\ flip \in {0, 1}
              /\ flip = 1 <=> u < p
              /\ beta' - beta = 1 - flip]_vars

C15_Witness ==
    /\ pc = "loop"
    /\ p = 1
    /\ draws = <<1>>
    /\ alpha = 1
    /\ beta = 2

\* C16: each flip changes exactly one counter by exactly +1 and leaves the
\* other counter and p unchanged: flip = 1 increments alpha only, flip = 0
\* increments beta only.
C16_OneCounterPerFlip ==
    [][pc = "flip" =>
          LET flip == Bern(p, draws'[Len(draws')])
          IN  /\ p' = p
              /\ flip = 1 => (alpha' = alpha + 1 /\ beta' = beta)
              /\ flip = 0 => (alpha' = alpha /\ beta' = beta + 1)]_vars

C16_Witness ==
    /\ pc = "loop"
    /\ Len(draws) = 2
    /\ Flips(p, draws) = <<1, 0>>
    /\ alpha = 2
    /\ beta = 2

\* C17: along a run alpha and beta never decrease and are never reset; they
\* change only in the flip step, which adds exactly one to their sum.
C17_CountersMonotone ==
    [][/\ alpha' >= alpha
       /\ beta' >= beta
       /\ pc # "flip" => (alpha' = alpha /\ beta' = beta)
       /\ pc = "flip" => alpha' + beta' = alpha + beta + 1]_vars

C17_Witness ==
    /\ Returned
    /\ n = 3
    /\ ret = <<3, 2>>
    /\ Flips(p, draws) = <<1, 0, 1>>

\* C18: computing and printing the estimates after the loop changes neither
\* alpha nor beta, and the pair returned is the state right after the n-th
\* flip.
C18_EstimatesPure ==
    [][(pc \in {"final", "print", "return"}) =>
          /\ alpha' = alpha
          /\ beta' = beta
          /\ Len(draws) = (IF n < 0 THEN 0 ELSE n)
          /\ pc' = "done" => (ret' = <<alpha, beta>>)]_vars

C18_Witness ==
    /\ Returned
    /\ printed # <<>>
    /\ n = 3
    /\ ret = <<1, 4>>
    /\ alpha = 1
    /\ beta = 4

\* C19 as stated: the MAP estimate (alpha-1)/(alpha+beta-2) is computed only
\* in states with alpha > 1 and beta > 1; it is never evaluated where
\* alpha = 1 or beta = 1.
C19_MapOnlyInterior ==
    (pc = "print" \/ printed # <<>>) => (alpha > 1 /\ beta > 1)

\* C19 as amended: the MAP estimate is computed only in states with
\* alpha >= 1, beta >= 1 and alpha + beta > 2, as (alpha-1)/(alpha+beta-2);
\* every call that returns has computed it, also where alpha = 1 or beta = 1.
C19_MapAfterFirstFlip ==
    /\ (pc = "print" \/ printed # <<>>)
          => (alpha >= 1 /\ beta >= 1 /\ alpha + beta > 2)
    /\ printed # <<>> => printed[1].map = <<alpha - 1, alpha + beta - 2>>
    /\ Returned => printed # <<>>

C19_Witness ==
    /\ Returned
    /\ n = 10
    /\ alpha = 11
    /\ beta = 1
    /\ printed # <<>>
    /\ printed[1].map = <<10, 10>>

\* C20: the mean estimate alpha/(alpha+beta) is well defined in every state
\* of learn_p (its denominator is at least 2), equals (N1+1)/(k+2) after k
\* flips with N1 ones, and equals 1/2 at the prior state (1, 1); the printed
\* mean is this value.
C20_MeanWellDefined ==
    LET mean == Estimates(alpha, beta).mean
        k == Len(draws)
    IN  /\ mean[2] >= 2
        /\ mean[1] * (k + 2) = (N1 + 1) * mean[2]
        /\ mean[1] >= 1
        /\ mean[1] < mean[2]
        /\ (alpha = 1 /\ beta = 1) => 2 * mean[1] = mean[2]
        /\ printed # <<>> => printed[1].mean = mean

C20_Witness ==
    /\ Returned
    /\ n = 3
    /\ N1 = 1
    /\ printed # <<>>
    /\ printed[1].mean = <<2, 5>>

\* number of ones / zeros among the first j flips of the running call
OnesIn(j) == Count(SubSeq(Flips(p, draws), 1, j), 1)
ZerosIn(j) == Count(SubSeq(Flips(p, draws), 1, j), 0)

\* the frames displayed inside the loop
LoopFrames == {k \in 1 .. Len(frames) : ~frames[k].final}

\* C21 as stated: with plot enabled, the k-th frame rendered inside the loop
\* (k = 1..n) shows the state after k flips have been applied.
C21_FrameAfterFlip ==
    \A k \in LoopFrames :
        k <= Len(draws)
            => /\ frames[k].N1 = OnesIn(k)
               /\ frames[k].N0 = ZerosIn(k)
               /\ frames[k].Y = <<1 + OnesIn(k), 1 + ZerosIn(k)>>

\* C21 as amended: with plot enabled, each iteration renders one frame before
\* its flip, so the k-th frame rendered inside the loop (k = 1..n) shows the
\* state after k - 1 flips have been applied; with plot disabled nothing is
\* rendered.
C21_FrameBeforeFlip ==
    /\ \A k \in LoopFrames :
          /\ k <= n
          /\ frames[k].applied = k - 1
          /\ frames[k].N1 = OnesIn(k - 1)
          /\ frames[k].N0 = ZerosIn(k - 1)
          /\ frames[k].Y = <<1 + OnesIn(k - 1), 1 + ZerosIn(k - 1)>>
    /\ (plot = TRUE /\ pc = "loop") => Cardinality(LoopFrames) = Len(draws)
    /\ plot = FALSE => frames = <<>>

C21_Witness ==
    /\ plot = TRUE
    /\ n = 3
    /\ pc = "loop"
    /\ Len(draws) = 3
    /\ Flips(p, draws) = <<1, 0, 1>>
    /\ frames[3].N1 = 1
    /\ frames[3].N0 = 1
    /\ frames[3].Y = <<2, 2>>

\* C22 as stated: a run of learn_p reads and writes no mutable state shared
\* with another run; the only mutable state it touches is its own alpha and
\* beta.
C22_NoSharedState ==
    [][rng' = rng]_vars

\* C22 as amended: the module-level generator rng is mutable state shared by
\* all runs: every flip of a run advances it by one value, nothing else in a
\* run touches it and a new call does not reset it; alpha and beta are local
\* to the run and hold the prior plus the flips of its own draws only.
C22_OnlyGeneratorShared ==
    [][/\ pc = "flip" => rng' = rng + 1
       /\ pc # "flip" => rng' = rng
       /\ rng' >= Len(draws')
       /\ alpha' = 1 + Count(Flips(p', draws'), 1)
       /\ beta' = 1 + Count(Flips(p', draws'), 0)]_vars

C22_Witness ==
    /\ prev # <<>>
    /\ Len(prev[1].draws) = 2
    /\ Len(draws) = 2
    /\ rng = 4
    /\ Returned
    /\ ret = <<2, 2>>
    /\ prev[1].ret = <<3, 1>>

\* C23: every call of learn_p starts from (alpha, beta) = (1, 1) whatever
\* earlier calls returned, and the result of the last call counts only the
\* flips of that call.
C23_NoPersistence ==
    /\ draws = <<>> => (alpha = 1 /\ beta = 1)
    /\ Returned => (ret = <<1 + N1, 1 + N0>> /\ ret[1] + ret[2] = n + 2)

C23_Witness ==
    /\ prev # <<>>
    /\ prev[1].ret = <<3, 1>>
    /\ Returned
    /\ ret = <<1, 2>>

\* the flips of the call before this one
PrevFlips == Flips(prev[1].p, prev[1].draws)

\* C24: the pair returned by learn_p depends only on how many of the n flips
\* were 1, not on their order: two returning calls with the same n and the
\* same number of ones return the same (alpha, beta).
C24_OrderIndependent ==
    (/\ Returned
     /\ prev # <<>>
     /\ prev[1].ret # <<>>
     /\ prev[1].n = n
     /\ Count(PrevFlips, 1) = N1)
        => ret = prev[1].ret

C24_Witness ==
    /\ Returned
    /\ prev # <<>>
    /\ prev[1].ret # <<>>
    /\ PrevFlips = <<1, 0>>
    /\ Flips(p, draws) = <<0, 1>>
    /\ ret = <<2, 2>>

\* C25: a call of learn_p reaches its return statement only if n >= 1 and
\* plot == True; otherwise it fails in the rendering after the loop, before
\* any estimate is printed, and returns nothing.
C25_ReturnsOnlyWhenPlotted ==
    /\ pc \in {"return", "done"} => (n >= 1 /\ plot = TRUE)
    /\ (Finished /\ (n <= 0 \/ plot = FALSE))
          => /\ pc = "raised"
             /\ err = (IF n <= 0 THEN "UnboundLocalError: step"
                                ELSE "UnboundLocalError: Y")
             /\ Len(draws) = (IF n <= 0 THEN 0 ELSE n)
             /\ printed = <<>>
             /\ ret = <<>>
    /\ (Finished /\ n >= 1 /\ plot = TRUE) => Returned

C25_Witness ==
    /\ pc = "raised"
    /\ plot = FALSE
    /\ n = 3
    /\ Len(draws) = 3
    /\ err = "UnboundLocalError: Y"
    /\ printed = <<>>

\* C26: for every run with n >= 1 the printed MAP estimate is N1/n (numerator
\* alpha - 1 = N1, denominator alpha + beta - 2 = n); it lies in [0, 1] and
\* is 0 or 1 exactly for all-tails or all-heads runs.
C26_MapIsFrequency ==
    printed # <<>>
        => LET map == printed[1].map
           IN  /\ n >= 1
               /\ map = <<N1, n>>
               /\ 0 <= map[1]
               /\ map[1] <= map[2]
               /\ map[1] = 0 <=> N0 = n
               /\ map[1] = map[2] <=> N1 = n

C26_Witness ==
    /\ Returned
    /\ n = 3
    /\ Flips(p, draws) = <<0, 1, 0>>
    /\ printed # <<>>
    /\ printed[1].map = <<1, 3>>

\* comparison of two fractions <<numerator, denominator>> with positive
\* denominators
RatLeq(x, y) == x[1] * y[2] <= y[1] * x[2]
RatEq(x, y) == x[1] * y[2] = y[1] * x[2]
OneHalf == <<1, 1 + 1>>

\* C27: in every state with at least one flip applied, the approximate median
\* lies between the MAP and the mean, the mean being the one closest to 1/2,
\* and the three coincide exactly when alpha = beta; the printed estimates
\* are these values.
C27_MedianBetween ==
    Len(draws) >= 1
        => LET e == Estimates(alpha, beta)
           IN  /\ e.map[2] > 0 /\ e.mean[2] > 0 /\ e.median[2] > 0
               /\ \/ /\ RatLeq(e.map, e.median)
                     /\ RatLeq(e.median, e.mean)
                     /\ RatLeq(e.mean, OneHalf)
                  \/ /\ RatLeq(OneHalf, e.mean)
                     /\ RatLeq(e.mean, e.median)
                     /\ RatLeq(e.median, e.map)
               /\ (RatEq(e.map, e.median) /\ RatEq(e.median, e.mean))
                     <=> alpha = beta
               /\ printed # <<>> => printed[1] = e

C27_Witness ==
    /\ Returned
    /\ n = 3
    /\ printed # <<>>
    /\ printed[1].map = <<2, 3>>
    /\ printed[1].median = <<8, 13>>
    /\ printed[1].mean = <<3, 5>>

\* the figure displayed after the loop, when there is one
HasFinalFrame == frames # <<>> /\ frames[Len(frames)].final
FinalFrame == frames[Len(frames)]

\* C28: with plot enabled and n >= 1, the curve Y of the final figure is the
\* Beta pdf of the state held before the n-th flip (the curve of the last
\* frame of the loop, not recomputed), while the final title and the returned
\* pair show the state after the n-th flip.
C28_FinalCurveStale ==
    /\ HasFinalFrame
          => /\ plot = TRUE /\ n >= 1
             /\ FinalFrame.Y = <<1 + OnesIn(n - 1), 1 + ZerosIn(n - 1)>>
             /\ FinalFrame.Y = frames[Len(frames) - 1].Y
             /\ FinalFrame.Y # <<alpha, beta>>
             /\ FinalFrame.N1 = N1 /\ FinalFrame.N0 = N0
             /\ FinalFrame.N1 + FinalFrame.N0 = n
    /\ Returned => (HasFinalFrame /\ ret = <<1 + N1, 1 + N0>>)

C28_Witness ==
    /\ Returned
    /\ n = 3
    /\ ret = <<3, 2>>
    /\ HasFinalFrame
    /\ FinalFrame.Y = <<2, 2>>
    /\ FinalFrame.N1 = 2
    /\ FinalFrame.N0 = 1

\* C29: in every frame the title's N1 and N0 are the counts of ones and zeros
\* applied so far; the frame of iteration i (0-based) of the loop, which is
\* frame k = i + 1, is labelled step = i + 1 with i flips applied, the final frame is labelled
\* step = n - 1 with n flips applied.
C29_TitleCounts ==
    \A k \in 1 .. Len(frames) :
        LET f == frames[k]
            j == IF f.final THEN n ELSE k - 1
        IN  /\ f.applied = j
            /\ f.N1 = OnesIn(j)
            /\ f.N0 = ZerosIn(j)
            /\ f.N1 + f.N0 = j
            /\ ~f.final => f.step = k
            /\ f.final => (f.step = n - 1 /\ k = n + 1)

C29_Witness ==
    /\ Returned
    /\ n = 3
    /\ Len(frames) = 4
    /\ frames[3].step = 3
    /\ frames[3].N1 + frames[3].N0 = 2
    /\ frames[4].step = 2
    /\ frames[4].N1 + frames[4].N0 = 3

====
